---- MODULE Spec2Model ----
(***************************************************************************)
(* Focus-and-hotkey subsystem of clippy: the /proc process-tree walk and   *)
(* session matching (hotkey/focus.rs), the X11 key grabs and the event     *)
(* polling thread (hotkey/x11.rs), and the sink delivery (broker/sink.rs). *)
(***************************************************************************)
EXTENDS Integers, Sequences, FiniteSets, TLC

VARIABLES
    procTable,  \* /proc as get_ppid reads it: pid -> PPid, or None
    op,         \* the last focus.rs function called: "none", "is_ancestor", "resolve_session"
    anc,        \* the call, when it is is_ancestor: arguments, result, number of get_ppid reads
    res,        \* the call, when it is resolve_session: arguments and result
    pc,         \* where the x11-events thread is: "check", "poll", "drain", "exited"
    stop,       \* the shared stop flag (AtomicBool)
    sock,       \* raw events that arrived on the connection's socket and are not yet read
    queued,     \* raw events read off the socket into the connection's queue, not yet polled
    arrived,    \* how many raw events have arrived so far
    chan,       \* the events sent on the unbounded channel, in send order
    rxAlive,    \* FALSE once the UnboundedReceiver has been dropped
    exitCause,  \* why the thread returned: "none" while it runs
    pollsAfterStop, \* poll() calls that returned while the stop flag was set
    classified, \* how many events of chan the provider's classifier has received
    events,     \* the HotkeyEvents sent on HotkeyRegistration::events, in send order
    sink,       \* the sink call: its arguments, the writer's outcome and the result
    fs,         \* the files on disk: path -> the bytes of the file, or NoFile
    fileCall,   \* the last deliver_file call: arguments, what the I/O did, result
    bindings,   \* the parsed Bindings register was given: capture, paste, clipboard if any
    gphase,     \* "idle", "registering", "registered", "failed", "unregistering", "unregistered"
    call,       \* the X11Context method running: "none", "grab_key", "ungrab_key"
    bi,         \* index in bindings of the binding the method was called with
    li,         \* index in LOCK_MASKS of the next iteration of the method's loop
    all_ok,     \* grab_key's local
    grabbed,    \* the (modifiers, keycode) pairs the X server holds grabbed for this client
    unflushed,  \* ungrab requests written to the connection and not yet flushed
    grabReq,    \* per binding: the pairs grab_key called xproto::grab_key with
    ungrabReq,  \* per binding: the pairs ungrab_key called xproto::ungrab_key with
    conflicts,  \* per binding: the pairs whose grab the server answered with an error
    grabRet,    \* per binding: what grab_key returned: "none", "Ok(true)", "Ok(false)", "Err"
    ungrabRet,  \* per binding: TRUE once ungrab_key has returned
    bindings_ok, \* HotkeyRegistration::bindings_ok
    faults,     \* failures of the connection and rejections by the server so far
    awp,        \* the get_active_window_pid call: the server's replies, position, result
    numLockRow, \* the modifier row the keyboard mapping has Num_Lock under, or None
    grabLog,    \* per binding: how each iteration of grab_key went, in order
    ungrabLog   \* per binding: how each iteration of ungrab_key and its flush went

focusVars == <<procTable, op, anc, res>>
classVars == <<classified, events>>
pollVars == <<pc, stop, sock, queued, arrived, chan, rxAlive, exitCause, pollsAfterStop,
              classVars>>
sinkVars == <<sink, fs, fileCall>>
grabVars == <<bindings, gphase, call, bi, li, all_ok, grabbed, unflushed, grabReq,
              ungrabReq, conflicts, grabRet, ungrabRet, bindings_ok, faults,
              numLockRow, grabLog, ungrabLog, awp>>

vars == <<procTable, op, anc, res, pc, stop, sock, queued, arrived, chan, rxAlive,
          exitCause, pollsAfterStop, classified, events, sink, fs, fileCall, bindings, gphase, call, bi, li, all_ok,
          grabbed, unflushed, grabReq, ungrabReq, conflicts, grabRet, ungrabRet,
          bindings_ok, faults, numLockRow, grabLog, ungrabLog, awp>>

\* What the actions of one component leave alone: the other components.
notFocus == <<pollVars, sinkVars, grabVars>>
notPoll == <<focusVars, sinkVars, grabVars>>
notSink == <<focusVars, pollVars, grabVars>>
notGrab == <<focusVars, pollVars, sinkVars>>
\* unregister stores the stop flag: what it leaves alone of the others.
notGrabStop == <<focusVars, sinkVars, pc, sock, queued, arrived, chan, rxAlive, exitCause,
                 pollsAfterStop, classVars>>

----------------------------------------------------------------------------
(* Bounds of the model *)

MaxPid == 3         \* pids are 0..MaxPid
MaxSessions == 2    \* longest session list passed to resolve_session
MaxEvents == 2      \* raw events the X server delivers in one behaviour
MaxPollCount == 2   \* pollsAfterStop counts up to this and then stays
MaxLen == 2         \* longest content handed to a sink
MaxFaults == 2      \* connection failures and grab rejections in one behaviour
MaxWrites == 2      \* deliver_file calls in one behaviour

----------------------------------------------------------------------------
(* hotkey/focus.rs *)

None == -1          \* Option::None of get_ppid

Pids == 0 .. MaxPid

\* /proc has an entry for the pids 1..MaxPid at most; an entry is the PPid
\* line of /proc/{pid}/status, None when the file or the line is missing.
\* PID 1 is init and its PPid is 0 (test get_ppid_of_init); every other entry
\* is arbitrary: missing, its own parent, on a cycle, a child of pid 0.
ProcTables == { t \in [1 .. MaxPid -> Pids \cup {None}] : t[1] = 0 }

get_ppid(pid) ==
    IF pid \in DOMAIN procTable THEN procTable[pid] ELSE None

\* The state of the for loop of is_ancestor: the pid whose parent is read
\* next, whether the function has returned and what, and how many times
\* get_ppid has been called.
walkStart(descendant_pid) ==
    [current |-> descendant_pid, returned |-> FALSE, result |-> FALSE, lookups |-> 0]

\* walkStep with the root test made before the ancestor test.
walkStepRootFirst(ancestor_pid, w) ==
    LET ppid == get_ppid(w.current) IN
    IF ppid = None \/ ppid <= 1 \/ ppid = w.current
    THEN [w EXCEPT !.returned = TRUE, !.result = FALSE, !.lookups = @ + 1]
    ELSE IF ppid = ancestor_pid
    THEN [w EXCEPT !.returned = TRUE, !.result = TRUE, !.lookups = @ + 1]
    ELSE [w EXCEPT !.current = ppid, !.lookups = @ + 1]

\* walkStep going on through pid 1 (the walk ends at a parent of 0 only).
walkStepThroughInit(ancestor_pid, w) ==
    LET ppid == get_ppid(w.current) IN
    IF ppid # None /\ ppid = ancestor_pid
    THEN [w EXCEPT !.returned = TRUE, !.result = TRUE, !.lookups = @ + 1]
    ELSE IF ppid # None /\ ppid > 0 /\ ppid # w.current
    THEN [w EXCEPT !.current = ppid, !.lookups = @ + 1]
    ELSE [w EXCEPT !.returned = TRUE, !.result = FALSE, !.lookups = @ + 1]

\* One iteration of the loop body (the match on get_ppid(current)).
walkStep(ancestor_pid, w) ==
    LET ppid == get_ppid(w.current) IN
    IF ppid # None /\ ppid = ancestor_pid
    THEN [w EXCEPT !.returned = TRUE, !.result = TRUE, !.lookups = @ + 1]
    ELSE IF ppid # None /\ ppid > 1 /\ ppid # w.current
    THEN [w EXCEPT !.current = ppid, !.lookups = @ + 1]
    ELSE [w EXCEPT !.returned = TRUE, !.result = FALSE, !.lookups = @ + 1]

\* n consecutive iterations of the loop, none of them run once the function
\* has returned (the range is halved to keep the evaluation shallow).
RECURSIVE walkIter(_, _, _)
walkIter(ancestor_pid, w, n) ==
    IF w.returned \/ n = 0 THEN w
    ELSE IF n = 1 THEN walkStep(ancestor_pid, w)
    ELSE walkIter(ancestor_pid, walkIter(ancestor_pid, w, n \div 2), n - (n \div 2))

WalkLimit == 1024

\* walk with the inclusive range 0..=1024.
walkInclusive(ancestor_pid, descendant_pid) ==
    walkIter(ancestor_pid, walkStart(descendant_pid), WalkLimit + 1)

\* for _ in 0..1024 { ... } false
walk(ancestor_pid, descendant_pid) ==
    walkIter(ancestor_pid, walkStart(descendant_pid), WalkLimit)

is_ancestor(ancestor_pid, descendant_pid) ==
    walk(ancestor_pid, descendant_pid).result

SessionIds == <<"s1", "s2", "s3", "s4">>

\* SessionDescriptor {session, pid, has_turn}; ids are unique in a snapshot,
\* and the pid is the session's child process, never pid 0.
SessionLists ==
    UNION { { [i \in 1 .. n |-> [session |-> SessionIds[i], pid |-> ps[i],
                                 has_turn |-> (i % 2 = 0)]] :
              ps \in [1 .. n -> 1 .. MaxPid] } : n \in 0 .. MaxSessions }

\* matchesFrom with the arguments of is_ancestor swapped.
RECURSIVE matchesFromSwapped(_, _, _)
matchesFromSwapped(window_pid, sessions, i) ==
    IF i > Len(sessions) THEN <<>>
    ELSE LET session == sessions[i]
             rest == matchesFromSwapped(window_pid, sessions, i + 1) IN
         IF session.pid = window_pid \/ is_ancestor(session.pid, window_pid)
         THEN <<session.session>> \o rest
         ELSE rest

\* matchesFrom with each match put in front of the earlier ones.
RECURSIVE matchesFromFront(_, _, _)
matchesFromFront(window_pid, sessions, i) ==
    IF i > Len(sessions) THEN <<>>
    ELSE LET session == sessions[i]
             rest == matchesFromFront(window_pid, sessions, i + 1) IN
         IF session.pid = window_pid \/ is_ancestor(window_pid, session.pid)
         THEN rest \o <<session.session>>
         ELSE rest

\* matches: the ids of the sessions of sessions[i..] that pass the test,
\* pushed in iteration order.
RECURSIVE matchesFrom(_, _, _)
matchesFrom(window_pid, sessions, i) ==
    IF i > Len(sessions) THEN <<>>
    ELSE LET session == sessions[i]
             rest == matchesFrom(window_pid, sessions, i + 1) IN
         IF session.pid = window_pid \/ is_ancestor(window_pid, session.pid)
         THEN <<session.session>> \o rest
         ELSE rest

resolve_session(window_pid, sessions) ==
    LET matches == matchesFrom(window_pid, sessions, 1) IN
    IF Len(matches) = 0 THEN [kind |-> "NoSession", id |-> "", ids |-> <<>>]
    ELSE IF Len(matches) = 1 THEN [kind |-> "Ok", id |-> matches[1], ids |-> <<>>]
    ELSE [kind |-> "Ambiguous", id |-> "", ids |-> matches]

NoAnc == [a |-> 0, d |-> 0, result |-> FALSE, lookups |-> 0]
NoRes == [window_pid |-> 0, sessions |-> <<>>,
          out |-> [kind |-> "NoSession", id |-> "", ids |-> <<>>]]

\* A reply to get_property: whether the request or the reply failed, and
\* the format and the bytes of the property.
NoReply == [err |-> "none", format |-> 0, value |-> <<>>]
NoAwp == [pc |-> "idle", r1 |-> NoReply, r2 |-> NoReply,
          out |-> [kind |-> "none", pid |-> 0]]

\* Each specification runs one component; the others stay as they are
\* before anything of them is called.
FocusIdle ==
    /\ procTable = [p \in 1 .. MaxPid |-> IF p = 1 THEN 0 ELSE None]
    /\ op = "none" /\ anc = NoAnc /\ res = NoRes

\* No file at a path.
NoFile == <<None>>

NoFileCall == [n |-> 0, path |-> "", content |-> <<>>, before |-> NoFile,
               io |-> [kind |-> "ok", written |-> 0],
               out |-> [ok |-> TRUE, err |-> ""]]

NoSink == [op |-> "none", content |-> <<>>, metadata |-> <<>>, writer |-> <<>>,
           out |-> <<>>]

SinkIdle ==
    /\ sink = NoSink
    /\ fs = <<>>
    /\ fileCall = NoFileCall

PollIdle ==
    /\ pc = "exited" /\ stop = FALSE /\ sock = <<>> /\ queued = <<>> /\ arrived = 0
    /\ chan = <<>> /\ rxAlive = FALSE /\ exitCause = "none" /\ pollsAfterStop = 0
    /\ classified = 0 /\ events = <<>>

GrabIdle ==
    /\ bindings = <<>> /\ gphase = "idle" /\ call = "none" /\ bi = 0 /\ li = 0
    /\ all_ok = TRUE /\ grabbed = {} /\ unflushed = {} /\ grabReq = <<>>
    /\ ungrabReq = <<>> /\ conflicts = <<>> /\ grabRet = <<>> /\ ungrabRet = <<>>
    /\ bindings_ok = 0 /\ faults = 0
    /\ numLockRow = 4 /\ grabLog = <<>> /\ ungrabLog = <<>>
    /\ awp = NoAwp

----------------------------------------------------------------------------
(* broker/sink.rs *)

Bytes == {0, 255}

Contents == UNION { [1 .. n -> Bytes] : n \in 0 .. MaxLen }

\* What the injected clipboard writer returns: Ok(()) or Err(message).
WriterOutcomes ==
    { [ok |-> TRUE, err |-> ""] } \cup
    { [ok |-> FALSE, err |-> e] : e \in {"clipboard_failed", "xclip: not found", ""} }

SinkMetadatas ==
    { [turn_id |-> "s1:1", timestamp |-> 1000, byte_length |-> 15,
       interrupted |-> i, truncated |-> t] : i \in BOOLEAN, t \in BOOLEAN }

\* deliver_clipboard: the result is the writer's own result.
deliver_clipboard(content, metadata, clipboard_writer) ==
    clipboard_writer

NoSinkOut == [ok |-> TRUE, err |-> ""]

SinkInit ==
    /\ \E c \in Contents, m \in SinkMetadatas, w \in WriterOutcomes :
         sink = [op |-> "none", content |-> c, metadata |-> m, writer |-> w,
                 out |-> NoSinkOut]
    /\ fs = <<>>
    /\ fileCall = NoFileCall
    /\ FocusIdle
    /\ PollIdle
    /\ GrabIdle

CallDeliverClipboard ==
    /\ sink.op = "none"
    /\ sink' = [sink EXCEPT !.op = "deliver_clipboard",
                             !.out = deliver_clipboard(sink.content, sink.metadata,
                                                       sink.writer)]
    /\ UNCHANGED <<fs, fileCall, notSink>>

SinkNext == CallDeliverClipboard

SinkSpec == SinkInit /\ [][SinkNext]_vars

\* The paths deliver_file is called with: a file in an existing directory
\* (test file_write_success) and one under a directory that does not exist
\* (test file_write_bad_path).
Paths == {"tmp/output.txt", "/nonexistent/dir/file.txt"}

DirExists(path) == path # "/nonexistent/dir/file.txt"

\* What the I/O of tokio::fs::write(path, content) can do: succeed; fail to
\* create the file (no such directory, permission denied); fail while
\* writing (no space left), after the first `written` bytes.
IoOutcomes(path, content) ==
    IF ~DirExists(path) THEN { [kind |-> "NotFound", written |-> 0] }
    ELSE { [kind |-> "ok", written |-> Len(content)],
           [kind |-> "PermissionDenied", written |-> 0] }
         \cup { [kind |-> "StorageFull", written |-> k] : k \in 0 .. Len(content) - 1 }

\* fs_write that writes over the bytes of the file without truncating it.
fs_writeNoTruncate(files, path, content, io) ==
    IF io.kind \in {"NotFound", "PermissionDenied"} THEN files
    ELSE LET old == IF files[path] = NoFile THEN <<>> ELSE files[path]
             new == SubSeq(content, 1, io.written) IN
         [files EXCEPT ![path] = new \o SubSeq(old, Len(new) + 1, Len(old))]

\* tokio::fs::write: the file is created, or truncated if it exists, and
\* the content is written to it from the start.
fs_write(files, path, content, io) ==
    IF io.kind \in {"NotFound", "PermissionDenied"} THEN files
    ELSE [files EXCEPT ![path] = SubSeq(content, 1, io.written)]

\* tokio::fs::read
fs_read(files, path) == files[path]

\* deliver_file handing on the error of the I/O.
deliver_fileRawError(path, content, metadata, io) ==
    IF io.kind = "ok" THEN [ok |-> TRUE, err |-> ""]
    ELSE [ok |-> FALSE, err |-> io.kind]

\* deliver_file: .map_err(|_| "file_write_failed".to_string())
deliver_file(path, content, metadata, io) ==
    IF io.kind = "ok" THEN [ok |-> TRUE, err |-> ""]
    ELSE [ok |-> FALSE, err |-> "file_write_failed"]

\* The disk before the first call: the file of the existing directory has
\* any content or is not there; nothing is under the missing directory.
FileInit ==
    /\ fs \in { f \in [Paths -> Contents \cup {NoFile}] :
                  \A p \in Paths : ~DirExists(p) => f[p] = NoFile }
    /\ fileCall = NoFileCall
    /\ sink = NoSink
    /\ FocusIdle
    /\ PollIdle
    /\ GrabIdle

CallDeliverFile ==
    /\ fileCall.n < MaxWrites
    /\ \E path \in Paths, content \in Contents, m \in SinkMetadatas :
         \E io \in IoOutcomes(path, content) :
            /\ fs' = fs_write(fs, path, content, io)
            /\ fileCall' = [n |-> fileCall.n + 1, path |-> path, content |-> content,
                            before |-> fs[path], io |-> io,
                            out |-> deliver_file(path, content, m, io)]
    /\ UNCHANGED <<sink, notSink>>

FileNext == CallDeliverFile

FileSpec == FileInit /\ [][FileNext]_vars

----------------------------------------------------------------------------
(* hotkey/x11.rs: grab_key and ungrab_key; resolver/hotkey.rs: register, unregister *)

LOCK_MASK == 2
NUM_LOCK_MASK == 16

\* a | b on u16
RECURSIVE BitOr(_, _)
BitOr(a, b) ==
    IF a = 0 THEN b
    ELSE IF b = 0 THEN a
    ELSE (IF a % 2 = 1 \/ b % 2 = 1 THEN 1 ELSE 0) + 2 * BitOr(a \div 2, b \div 2)

LOCK_MASKS == <<0, LOCK_MASK, NUM_LOCK_MASK, BitOr(LOCK_MASK, NUM_LOCK_MASK)>>

\* What the keyboard mapping of the server says of Num_Lock: the modifier
\* row (Mod1 is row 3, Mod2 row 4, ..., Mod5 row 7) that holds its keycode,
\* or None when the mapping is empty or the query fails.
NumLockRows == {None} \cup (0 .. 7)

\* Binding {modifiers, keycode, raw}: Mod4 is 64, Shift is 1, Mod2 is 16.
CaptureBinding == [modifiers |-> 65, keycode |-> 54, raw |-> "Super+Shift+C"]
PasteBinding == [modifiers |-> 65, keycode |-> 55, raw |-> "Super+Shift+V"]
ClipboardBindings ==
    { [modifiers |-> 64, keycode |-> 53, raw |-> "Super+X"],
      [modifiers |-> 80, keycode |-> 53, raw |-> "Super+Mod2+X"] }

\* register(capture, paste, clipboard: Option)
RegisterArgs ==
    { <<CaptureBinding, PasteBinding>> } \cup
    { <<CaptureBinding, PasteBinding, c>> : c \in ClipboardBindings }

\* The grab or ungrab as the server keys it.
Pair(mods, keycode) == [mods |-> mods, keycode |-> keycode]

\* grab_key: ModMask::from(binding.modifiers | lock_mask)
GrabMods(binding, lock_mask) == BitOr(binding.modifiers, lock_mask)

\* ungrab_key with the NumLock bit left out of the lock mask.
UngrabModsCaps(binding, lock_mask) ==
    BitOr(binding.modifiers, lock_mask % NUM_LOCK_MASK)

\* ungrab_key with the lock mask left out of the modifiers.
UngrabModsBare(binding, lock_mask) == binding.modifiers

\* ungrab_key: ModMask::from(binding.modifiers | lock_mask)
UngrabMods(binding, lock_mask) == BitOr(binding.modifiers, lock_mask)

\* ungrab_key leaving its loop at the first request that fails.
AfterUngrabErrorBreak(i) == Len(LOCK_MASKS) + 1

\* if let Err(e) = xproto::ungrab_key(...) { debug! }: the loop goes on.
AfterUngrabError(i) == i + 1

\* grab_key returning Ok(true) whatever the replies were.
GrabResultTrue(ok) == "Ok(true)"

\* Ok(all_ok)
GrabResult(ok) == IF ok THEN "Ok(true)" ELSE "Ok(false)"

\* grab_key leaving its loop at the first error reply.
AfterGrabErrorBreak(i) == Len(LOCK_MASKS) + 1

\* if let Err(e) = cookie.check() { warn!; all_ok = false; }: the loop goes on.
AfterGrabError(i) == i + 1

NoneOf(bs) == [b \in 1 .. Len(bs) |-> {}]

\* The binding of the running call and the pair of its next iteration.
Binding == bindings[bi]
NextGrabPair == Pair(GrabMods(Binding, LOCK_MASKS[li]), Binding.keycode)
NextUngrabPair == Pair(UngrabMods(Binding, LOCK_MASKS[li]), Binding.keycode)

InLoop(method) == call = method /\ li \in 1 .. Len(LOCK_MASKS)

\* xproto::grab_key(...) fails to send: map_err(...)? returns Err.
GrabSendErr ==
    /\ InLoop("grab_key")
    /\ faults < MaxFaults
    /\ faults' = faults + 1
    /\ grabReq' = [grabReq EXCEPT ![bi] = @ \cup {NextGrabPair}]
    /\ grabRet' = [grabRet EXCEPT ![bi] = "Err"]
    /\ call' = "none"
    /\ grabLog' = [grabLog EXCEPT ![bi] = Append(@, "send_error")]
    /\ UNCHANGED <<bindings, gphase, bi, li, all_ok, grabbed, unflushed, ungrabReq,
                   conflicts, ungrabRet, bindings_ok, numLockRow, awp, ungrabLog, notGrab>>

\* The request is sent and cookie.check() is Ok: the server made the grab.
GrabAccepted ==
    /\ InLoop("grab_key")
    /\ grabReq' = [grabReq EXCEPT ![bi] = @ \cup {NextGrabPair}]
    /\ grabbed' = grabbed \cup {NextGrabPair}
    /\ li' = li + 1
    /\ grabLog' = [grabLog EXCEPT ![bi] = Append(@, "accepted")]
    /\ UNCHANGED <<bindings, gphase, call, bi, all_ok, unflushed, ungrabReq, conflicts,
                   grabRet, ungrabRet, bindings_ok, faults, numLockRow, awp, ungrabLog, notGrab>>

\* The request is sent and cookie.check() is Err: the server refused the
\* grab (another client holds it).
GrabRejected ==
    /\ InLoop("grab_key")
    /\ faults < MaxFaults
    /\ faults' = faults + 1
    /\ grabReq' = [grabReq EXCEPT ![bi] = @ \cup {NextGrabPair}]
    /\ conflicts' = [conflicts EXCEPT ![bi] = @ \cup {NextGrabPair}]
    /\ all_ok' = FALSE
    /\ li' = AfterGrabError(li)
    /\ grabLog' = [grabLog EXCEPT ![bi] = Append(@, "rejected")]
    /\ UNCHANGED <<bindings, gphase, call, bi, grabbed, unflushed, ungrabReq, grabRet,
                   ungrabRet, bindings_ok, numLockRow, awp, ungrabLog, notGrab>>

\* Ok(all_ok)
GrabReturn ==
    /\ call = "grab_key"
    /\ li > Len(LOCK_MASKS)
    /\ grabRet' = [grabRet EXCEPT ![bi] = GrabResult(all_ok)]
    /\ call' = "none"
    /\ UNCHANGED <<bindings, gphase, bi, li, all_ok, grabbed, unflushed, grabReq,
                   ungrabReq, conflicts, ungrabRet, bindings_ok, faults, numLockRow, awp, grabLog, ungrabLog, notGrab>>

\* xproto::ungrab_key(...) is Ok: the request is written to the connection.
UngrabSent ==
    /\ InLoop("ungrab_key")
    /\ ungrabReq' = [ungrabReq EXCEPT ![bi] = @ \cup {NextUngrabPair}]
    /\ unflushed' = unflushed \cup {NextUngrabPair}
    /\ li' = li + 1
    /\ ungrabLog' = [ungrabLog EXCEPT ![bi] = Append(@, "sent")]
    /\ UNCHANGED <<bindings, gphase, call, bi, all_ok, grabbed, grabReq, conflicts,
                   grabRet, ungrabRet, bindings_ok, faults, numLockRow, awp, grabLog, notGrab>>

\* xproto::ungrab_key(...) is Err: logged, and the loop goes on.
UngrabSendErr ==
    /\ InLoop("ungrab_key")
    /\ faults < MaxFaults
    /\ faults' = faults + 1
    /\ ungrabReq' = [ungrabReq EXCEPT ![bi] = @ \cup {NextUngrabPair}]
    /\ li' = AfterUngrabError(li)
    /\ ungrabLog' = [ungrabLog EXCEPT ![bi] = Append(@, "send_error")]
    /\ UNCHANGED <<bindings, gphase, call, bi, all_ok, grabbed, unflushed, grabReq,
                   conflicts, grabRet, ungrabRet, bindings_ok, numLockRow, awp, grabLog, notGrab>>

\* ungrab_key without the flush: the requests written never leave.
AfterFlushNothing(held, requests) == held

\* self.conn.flush(): the requests written reach the server, which drops
\* the grabs they name from those it holds for the client.
AfterFlush(held, requests) == held \ requests

\* self.conn.flush() is Ok: the server releases what the requests name.
UngrabFlush ==
    /\ call = "ungrab_key"
    /\ li > Len(LOCK_MASKS)
    /\ grabbed' = AfterFlush(grabbed, unflushed)
    /\ unflushed' = {}
    /\ ungrabLog' = [ungrabLog EXCEPT ![bi] = Append(@, "flushed")]
    /\ ungrabRet' = [ungrabRet EXCEPT ![bi] = TRUE]
    /\ call' = "none"
    /\ UNCHANGED <<bindings, gphase, bi, li, all_ok, grabReq, ungrabReq, conflicts,
                   grabRet, bindings_ok, faults, numLockRow, awp, grabLog, notGrab>>

\* self.conn.flush() is Err: logged; the requests written are lost.
UngrabFlushErr ==
    /\ call = "ungrab_key"
    /\ li > Len(LOCK_MASKS)
    /\ faults < MaxFaults
    /\ faults' = faults + 1
    /\ unflushed' = {}
    /\ ungrabLog' = [ungrabLog EXCEPT ![bi] = Append(@, "flush_error")]
    /\ ungrabRet' = [ungrabRet EXCEPT ![bi] = TRUE]
    /\ call' = "none"
    /\ UNCHANGED <<bindings, gphase, bi, li, all_ok, grabbed, grabReq, ungrabReq,
                   conflicts, grabRet, bindings_ok, numLockRow, awp, grabLog, notGrab>>

\* register: the first binding is handed to grab_key.
RegisterStart ==
    /\ gphase = "idle"
    /\ gphase' = "registering"
    /\ bi' = 1 /\ li' = 1 /\ all_ok' = TRUE /\ call' = "grab_key"
    /\ UNCHANGED <<bindings, grabbed, unflushed, grabReq, ungrabReq, conflicts, grabRet,
                   ungrabRet, bindings_ok, faults, numLockRow, awp, grabLog, ungrabLog, notGrab>>

\* register after grab_key returned: Err ends the registration, Ok(true)
\* counts the binding, and the next binding, if any, is handed to grab_key.
RegisterStep ==
    /\ gphase = "registering"
    /\ call = "none"
    /\ IF grabRet[bi] = "Err"
       THEN /\ gphase' = "failed"
            /\ UNCHANGED <<bi, li, all_ok, call, bindings_ok>>
       ELSE /\ bindings_ok' = bindings_ok + (IF grabRet[bi] = "Ok(true)" THEN 1 ELSE 0)
            /\ IF bi < Len(bindings)
               THEN /\ bi' = bi + 1 /\ li' = 1 /\ all_ok' = TRUE /\ call' = "grab_key"
                    /\ UNCHANGED gphase
               ELSE /\ gphase' = "registered"
                    /\ UNCHANGED <<bi, li, all_ok, call>>
    /\ UNCHANGED <<bindings, grabbed, unflushed, grabReq, ungrabReq, conflicts, grabRet,
                   ungrabRet, faults, numLockRow, awp, grabLog, ungrabLog, notGrab>>

\* unregister: the stop flag is stored, and the bindings the provider holds
\* are released, the first being handed to ungrab_key. It holds none before
\* a register and none once an unregister has released them.
UnregisterStart ==
    /\ gphase \in {"idle", "registered", "failed", "unregistered"}
    /\ call = "none"
    /\ stop' = TRUE
    /\ IF gphase \in {"registered", "failed"}
       THEN /\ gphase' = "unregistering"
            /\ bi' = 1 /\ li' = 1 /\ call' = "ungrab_key"
       ELSE /\ gphase' = IF gphase = "idle" THEN "unregistered" ELSE "unregistered_twice"
            /\ UNCHANGED <<bi, li, call>>
    /\ UNCHANGED <<bindings, all_ok, grabbed, unflushed, grabReq, ungrabReq, conflicts,
                   grabRet, ungrabRet, bindings_ok, faults, numLockRow, awp, grabLog,
                   ungrabLog, notGrabStop>>

\* unregister after ungrab_key returned: the next binding, if any.
UnregisterStep ==
    /\ gphase = "unregistering"
    /\ call = "none"
    /\ IF bi < Len(bindings)
       THEN /\ bi' = bi + 1 /\ li' = 1 /\ call' = "ungrab_key"
            /\ UNCHANGED gphase
       ELSE /\ gphase' = "unregistered"
            /\ UNCHANGED <<bi, li, call>>
    /\ UNCHANGED <<bindings, all_ok, grabbed, unflushed, grabReq, ungrabReq, conflicts,
                   grabRet, ungrabRet, bindings_ok, faults, numLockRow, awp, grabLog, ungrabLog, notGrab>>

GrabInit ==
    /\ bindings \in RegisterArgs
    /\ gphase = "idle" /\ call = "none" /\ bi = 0 /\ li = 0 /\ all_ok = TRUE
    /\ grabbed = {} /\ unflushed = {}
    /\ grabReq = NoneOf(bindings) /\ ungrabReq = NoneOf(bindings)
    /\ conflicts = NoneOf(bindings)
    /\ grabRet = [b \in 1 .. Len(bindings) |-> "none"]
    /\ ungrabRet = [b \in 1 .. Len(bindings) |-> FALSE]
    /\ bindings_ok = 0 /\ faults = 0
    /\ numLockRow = 4
    /\ grabLog = [b \in 1 .. Len(bindings) |-> <<>>]
    /\ ungrabLog = [b \in 1 .. Len(bindings) |-> <<>>]
    /\ awp = NoAwp
    /\ FocusIdle /\ PollIdle /\ SinkIdle

\* The pairs grab_key requests for a binding when no send fails.
GrabPairs(binding) ==
    { Pair(GrabMods(binding, LOCK_MASKS[i]), binding.keycode) :
        i \in 1 .. Len(LOCK_MASKS) }

\* The state a register leaves when no request fails and no grab is
\* refused: every binding grabbed under its four lock masks.
GrabRegistered ==
    /\ bindings \in RegisterArgs
    /\ gphase = "registered" /\ call = "none"
    /\ bi = Len(bindings) /\ li = Len(LOCK_MASKS) + 1 /\ all_ok = TRUE
    /\ grabbed = UNION { GrabPairs(bindings[b]) : b \in 1 .. Len(bindings) }
    /\ unflushed = {}
    /\ grabReq = [b \in 1 .. Len(bindings) |-> GrabPairs(bindings[b])]
    /\ ungrabReq = NoneOf(bindings)
    /\ conflicts = NoneOf(bindings)
    /\ grabRet = [b \in 1 .. Len(bindings) |-> "Ok(true)"]
    /\ ungrabRet = [b \in 1 .. Len(bindings) |-> FALSE]
    /\ bindings_ok = Len(bindings) /\ faults = 0
    /\ awp = NoAwp
    /\ numLockRow = 4
    /\ grabLog = [b \in 1 .. Len(bindings) |->
                    [i \in 1 .. Len(LOCK_MASKS) |-> "accepted"]]
    /\ ungrabLog = [b \in 1 .. Len(bindings) |-> <<>>]

GrabNext ==
    \/ GrabSendErr \/ GrabAccepted \/ GrabRejected \/ GrabReturn
    \/ UngrabSent \/ UngrabSendErr \/ UngrabFlush \/ UngrabFlushErr
    \/ RegisterStart \/ RegisterStep \/ UnregisterStart \/ UnregisterStep

GrabSpec == GrabInit /\ [][GrabNext]_vars

\* The replies of the server to get_property(..., 0, 1): Ok with a format
\* (0 when the property is not set) and at most one 32-bit unit of value, or
\* a failure of the request or of the reply.
PropertyValues ==
    { <<>>, <<1, 0>>, <<0, 0, 0, 0>>, <<7, 0, 0, 0>>, <<57, 48, 0, 0>> }

Replies ==
    { [err |-> e, format |-> 0, value |-> <<>>] : e \in {"send", "reply"} }
    \cup { [err |-> "none", format |-> f, value |-> v] :
             f \in {0, 8, 16, 32}, v \in PropertyValues }

\* u32::from_ne_bytes of the first four bytes; the server sends the value in
\* the byte order of the client (least significant byte first here).
from_ne_bytes(value) ==
    value[1] + 256 * value[2] + 65536 * value[3] + 16777216 * value[4]

\* if reply.format != 32 || reply.value.len() < 4 { return Ok(None); }
property_absent(reply) == reply.format # 32 \/ Len(reply.value) < 4

\* The test of the null window left out.
window_is_nullNever(window_id) == FALSE

\* if window_id == 0 { return Ok(None); }
window_is_null(window_id) == window_id = 0

\* Step 1: the _NET_ACTIVE_WINDOW property of the root window.
QueryActiveWindow ==
    /\ awp.pc = "start"
    /\ IF awp.r1.err # "none"
       THEN awp' = [awp EXCEPT !.pc = "done", !.out = [kind |-> "Err", pid |-> 0]]
       ELSE IF property_absent(awp.r1)
       THEN awp' = [awp EXCEPT !.pc = "done", !.out = [kind |-> "None", pid |-> 0]]
       ELSE IF window_is_null(from_ne_bytes(awp.r1.value))
       THEN awp' = [awp EXCEPT !.pc = "done", !.out = [kind |-> "None", pid |-> 0]]
       ELSE awp' = [awp EXCEPT !.pc = "step2"]
    /\ UNCHANGED <<bindings, gphase, call, bi, li, all_ok, grabbed, unflushed, grabReq,
                   ungrabReq, conflicts, grabRet, ungrabRet, bindings_ok, faults,
                   numLockRow, grabLog, ungrabLog, notGrab>>

\* Step 2: the _NET_WM_PID property of the active window.
QueryWindowPid ==
    /\ awp.pc = "step2"
    /\ IF awp.r2.err # "none"
       THEN awp' = [awp EXCEPT !.pc = "done", !.out = [kind |-> "Err", pid |-> 0]]
       ELSE IF property_absent(awp.r2)
       THEN awp' = [awp EXCEPT !.pc = "done", !.out = [kind |-> "None", pid |-> 0]]
       ELSE awp' = [awp EXCEPT !.pc = "done",
                               !.out = [kind |-> "Some",
                                        pid |-> from_ne_bytes(awp.r2.value)]]
    /\ UNCHANGED <<bindings, gphase, call, bi, li, all_ok, grabbed, unflushed, grabReq,
                   ungrabReq, conflicts, grabRet, ungrabRet, bindings_ok, faults,
                   numLockRow, grabLog, ungrabLog, notGrab>>

\* The call, with what the server will answer to its two requests.
WindowInit ==
    /\ \E r1 \in Replies, r2 \in Replies :
         awp = [pc |-> "start", r1 |-> r1, r2 |-> r2,
                out |-> [kind |-> "none", pid |-> 0]]
    /\ bindings = <<>> /\ gphase = "idle" /\ call = "none" /\ bi = 0 /\ li = 0
    /\ all_ok = TRUE /\ grabbed = {} /\ unflushed = {} /\ grabReq = <<>>
    /\ ungrabReq = <<>> /\ conflicts = <<>> /\ grabRet = <<>> /\ ungrabRet = <<>>
    /\ bindings_ok = 0 /\ faults = 0
    /\ numLockRow = 4 /\ grabLog = <<>> /\ ungrabLog = <<>>
    /\ FocusIdle /\ PollIdle /\ SinkIdle

WindowNext == QueryActiveWindow \/ QueryWindowPid

WindowSpec == WindowInit /\ [][WindowNext]_vars

\* A registration on a server with any keyboard mapping, every grab of it
\* accepted or refused, no request failing to be sent.
KeymapInit ==
    /\ bindings \in RegisterArgs
    /\ gphase = "idle" /\ call = "none" /\ bi = 0 /\ li = 0 /\ all_ok = TRUE
    /\ grabbed = {} /\ unflushed = {}
    /\ grabReq = NoneOf(bindings) /\ ungrabReq = NoneOf(bindings)
    /\ conflicts = NoneOf(bindings)
    /\ grabRet = [b \in 1 .. Len(bindings) |-> "none"]
    /\ ungrabRet = [b \in 1 .. Len(bindings) |-> FALSE]
    /\ bindings_ok = 0 /\ faults = 0
    /\ numLockRow \in NumLockRows
    /\ grabLog = [b \in 1 .. Len(bindings) |-> <<>>]
    /\ ungrabLog = [b \in 1 .. Len(bindings) |-> <<>>]
    /\ awp = NoAwp
    /\ FocusIdle /\ PollIdle /\ SinkIdle

KeymapNext ==
    \/ RegisterStart \/ GrabAccepted \/ GrabRejected \/ GrabReturn \/ RegisterStep

KeymapSpec == KeymapInit /\ [][KeymapNext]_vars

----------------------------------------------------------------------------
(* hotkey/x11.rs: spawn_event_thread *)

\* The key events the X server delivers in a behaviour, by modifier state
\* and keycode: the capture key pressed with CapsLock on, Super+X, and a
\* key no binding names.
RawKeys ==
    { [state |-> 67, detail |-> 54], [state |-> 64, detail |-> 53],
      [state |-> 0, detail |-> 38] }

\* enum HotkeyEvent, in the order register takes the bindings.
HotkeyEvents == <<"Capture", "Paste", "Clipboard">>

\* A raw key event is of a binding when its modifier state and keycode are
\* one of the binding's grabs.
Matches(event, binding) ==
    Pair(event.state, event.detail) \in GrabPairs(binding)

\* classify sending the event of the first binding for a raw event that
\* matches none.
classifyUnmatched(event) ==
    LET hits == { b \in 1 .. Len(bindings) : Matches(event, bindings[b]) } IN
    IF hits = {} THEN << [hotkey |-> HotkeyEvents[1], seq |-> event.seq] >>
    ELSE << [hotkey |-> HotkeyEvents[CHOOSE b \in hits : \A c \in hits : b <= c],
             seq |-> event.seq] >>

\* The HotkeyEvent, if any, a raw event is classified into; seq, the raw
\* event it was made from, is kept for the record only.
classify(event) ==
    LET hits == { b \in 1 .. Len(bindings) : Matches(event, bindings[b]) } IN
    IF hits = {} THEN <<>>
    ELSE << [hotkey |-> HotkeyEvents[CHOOSE b \in hits : \A c \in hits : b <= c],
             seq |-> event.seq] >>

\* Where the loop goes when tx.send(event) fails, continuing instead of returning.
AfterSendErrDrain == "drain"

\* if tx.send(event).is_err() { return; }
AfterSendErr == "exited"

\* Where the loop goes after a timeout, waiting again without the loop test.
AfterTimeoutPoll == "poll"

\* Ok(0) => continue: back to the while condition.
AfterTimeout == "check"

\* poll() returned while the stop flag was set.
CountPoll ==
    pollsAfterStop' =
        IF stop /\ pollsAfterStop < MaxPollCount THEN pollsAfterStop + 1
        ELSE pollsAfterStop

\* while !stop.load(Ordering::Relaxed)
LoopCheck ==
    /\ pc = "check"
    /\ IF stop
       THEN pc' = "exited" /\ exitCause' = "stop"
       ELSE pc' = "poll" /\ UNCHANGED exitCause
    /\ UNCHANGED <<stop, sock, arrived, chan, rxAlive, pollsAfterStop, queued, classVars, notPoll>>

\* poll(&mut fds, 100) => Ok(0): nothing readable for 100 ms.
PollTimeout ==
    /\ pc = "poll"
    /\ sock = <<>>
    /\ pc' = AfterTimeout
    /\ CountPoll
    /\ UNCHANGED <<stop, sock, arrived, chan, rxAlive, exitCause, queued, classVars, notPoll>>

\* poll => Ok(_): the connection is readable.
PollReadable ==
    /\ pc = "poll"
    /\ sock # <<>>
    /\ pc' = "drain"
    /\ CountPoll
    /\ UNCHANGED <<stop, sock, arrived, chan, rxAlive, exitCause, queued, classVars, notPoll>>

\* Where the loop goes after an interrupted wait, taken as any other error.
AfterEintrReturn == "exited"

\* Err(nix::Error::EINTR) => continue: back to the while condition.
AfterEintr == "check"

\* poll => Err(EINTR) => continue
PollEintr ==
    /\ pc = "poll"
    /\ pc' = AfterEintr
    /\ CountPoll
    /\ UNCHANGED <<stop, sock, arrived, chan, rxAlive, exitCause, queued, classVars, notPoll>>

\* poll => Err(e) => return
PollErr ==
    /\ pc = "poll"
    /\ pc' = "exited"
    /\ exitCause' = "poll_error"
    /\ CountPoll
    /\ UNCHANGED <<stop, sock, arrived, chan, rxAlive, queued, classVars, notPoll>>

\* poll_for_event handing out the newest pending event first.
poll_for_eventNewest(pending) ==
    [event |-> pending[Len(pending)], rest |-> SubSeq(pending, 1, Len(pending) - 1)]

\* conn.poll_for_event() => Ok(Some(event)): the oldest pending event is
\* taken off the connection.
poll_for_event(pending) ==
    [event |-> Head(pending), rest |-> Tail(pending)]

\* What poll_for_event finds: the connection's queue, then what it reads
\* off the socket without blocking.
Pending == queued \o sock

\* conn.poll_for_event() => Ok(Some(event)), then tx.send(event): what was
\* on the socket is read into the queue and the oldest event is taken.
DrainSend ==
    /\ pc = "drain"
    /\ Pending # <<>>
    /\ queued' = poll_for_event(Pending).rest
    /\ sock' = <<>>
    /\ IF rxAlive
       THEN /\ chan' = Append(chan, poll_for_event(Pending).event)
            /\ UNCHANGED <<pc, exitCause>>
       ELSE /\ pc' = AfterSendErr
            /\ exitCause' = IF AfterSendErr = "exited" THEN "rx_dropped" ELSE exitCause
            /\ UNCHANGED chan
    /\ UNCHANGED <<stop, arrived, rxAlive, pollsAfterStop, classVars, notPoll>>

\* conn.poll_for_event() => Ok(None) => break, and the match and the loop
\* body end: back to the while condition.
DrainNone ==
    /\ pc = "drain"
    /\ Pending = <<>>
    /\ pc' = "check"
    /\ UNCHANGED <<stop, sock, queued, arrived, chan, rxAlive, exitCause, pollsAfterStop,
                   classVars, notPoll>>

\* conn.poll_for_event() => Err(e) => return
DrainErr ==
    /\ pc = "drain"
    /\ pc' = "exited"
    /\ exitCause' = "conn_error"
    /\ UNCHANGED <<stop, sock, arrived, chan, rxAlive, pollsAfterStop, queued, classVars, notPoll>>

\* The X server delivers a raw event on the connection: the seq-th of the
\* connection, a key event with the modifier state and the keycode pressed.
XEvent ==
    /\ arrived < MaxEvents
    /\ arrived' = arrived + 1
    /\ \E k \in RawKeys :
         sock' = Append(sock, [seq |-> arrived + 1, state |-> k.state,
                               detail |-> k.detail])
    /\ UNCHANGED <<pc, stop, chan, rxAlive, exitCause, pollsAfterStop, queued, classVars, notPoll>>

\* A call of the async side on the shared connection, waiting for its
\* reply (cookie.check() of grab_key, .reply() of get_active_window_pid),
\* reads what is on the socket and puts the events it finds in the
\* connection's queue; the socket is then no longer readable.
AsyncRead ==
    /\ sock # <<>>
    /\ queued' = queued \o sock
    /\ sock' = <<>>
    /\ UNCHANGED <<pc, stop, arrived, chan, rxAlive, exitCause, pollsAfterStop, classVars,
                   notPoll>>

\* The owner of the flag stores true.
SetStop ==
    /\ ~stop
    /\ stop' = TRUE
    /\ UNCHANGED <<pc, sock, arrived, chan, rxAlive, exitCause, pollsAfterStop, queued, classVars, notPoll>>

\* The provider's event loop receives the next raw event of the channel,
\* and sends the HotkeyEvent of the registered binding it matches on
\* HotkeyRegistration::events; an event that matches none is discarded.
Classify ==
    /\ rxAlive
    /\ classified < Len(chan)
    /\ classified' = classified + 1
    /\ events' = events \o classify(chan[classified + 1])
    /\ UNCHANGED <<pc, stop, sock, queued, arrived, chan, rxAlive, exitCause,
                   pollsAfterStop, notPoll>>

\* The async side drops the receiver spawn_event_thread returned.
DropReceiver ==
    /\ rxAlive
    /\ rxAlive' = FALSE
    /\ UNCHANGED <<pc, stop, sock, arrived, chan, exitCause, pollsAfterStop, queued, classVars, notPoll>>

\* The state spawn_event_thread returns in: the channel made, the thread at
\* its first loop test.
PollInit ==
    /\ pc = "check" /\ stop = FALSE /\ sock = <<>> /\ queued = <<>> /\ arrived = 0
    /\ chan = <<>> /\ rxAlive = TRUE /\ exitCause = "none" /\ pollsAfterStop = 0
    /\ classified = 0 /\ events = <<>>
    /\ FocusIdle
    /\ SinkIdle
    /\ GrabRegistered

PollNext ==
    \/ LoopCheck \/ PollTimeout \/ PollReadable \/ PollEintr \/ PollErr
    \/ DrainSend \/ DrainNone \/ DrainErr
    \/ XEvent \/ AsyncRead \/ Classify \/ SetStop \/ DropReceiver

PollSpec == PollInit /\ [][PollNext]_vars

\* The thread is an OS thread: it is scheduled, so each step it can take it
\* takes; poll() returns within its timeout, and signals do not interrupt
\* every wait for ever, so a wait that can time out or find the connection
\* readable again and again does so.
FairPollSpec ==
    /\ PollSpec
    /\ WF_vars(LoopCheck) /\ WF_vars(DrainSend) /\ WF_vars(DrainNone)
    /\ SF_vars(PollTimeout) /\ SF_vars(PollReadable)

----------------------------------------------------------------------------
(* hotkey/focus.rs: the calls *)

\* The arguments of the one call of a behaviour are drawn by the action
\* that makes it; procTable is what /proc holds during the call.
FocusInit ==
    /\ procTable \in ProcTables
    /\ op = "none"
    /\ anc = NoAnc
    /\ res = NoRes
    /\ PollIdle
    /\ SinkIdle
    /\ GrabIdle

CallIsAncestor ==
    /\ op = "none"
    /\ \E a \in Pids, d \in Pids :
         LET w == walk(a, d) IN
         /\ op' = "is_ancestor"
         /\ anc' = [a |-> a, d |-> d, result |-> w.result, lookups |-> w.lookups]
         /\ UNCHANGED <<procTable, res, notFocus>>

CallResolveSession ==
    /\ op = "none"
    /\ \E w \in Pids, ss \in SessionLists :
         /\ op' = "resolve_session"
         /\ res' = [window_pid |-> w, sessions |-> ss, out |-> resolve_session(w, ss)]
         /\ UNCHANGED <<procTable, anc, notFocus>>

FocusNext == CallIsAncestor \/ CallResolveSession

FocusSpec == FocusInit /\ [][FocusNext]_vars

----------------------------------------------------------------------------
(* The process tree, stated without the walk *)

\* The parents of the pids of S that /proc lists.
Parents(S) ==
    { procTable[p] : p \in { q \in S \cap DOMAIN procTable : procTable[q] # None } }

RECURSIVE Reach(_, _)
Reach(S, k) == IF k = 0 THEN S ELSE Reach(S \cup Parents(S), k - 1)

\* Every pid reached from d by one or more parent steps.
StrictAncestors(d) == Reach(Parents({d}), MaxPid + 1)

Live(p) == p \in DOMAIN procTable /\ procTable[p] # None

----------------------------------------------------------------------------
(* Claims on hotkey/focus.rs *)

\* C1 (as claimed): is_ancestor(p, p) is false for every pid p and every
\* process table, also one where p is its own parent or on a parent cycle.
C1_SelfIsNeverAncestor ==
    (op = "is_ancestor" /\ anc.a = anc.d) => anc.result = FALSE

\* C5: is_ancestor calls get_ppid at most 1024 times and then returns,
\* whatever the pids and the process table, parent cycles included.
C5_WalkBounded ==
    op = "is_ancestor" => (anc.lookups >= 1 /\ anc.lookups <= 1024)

\* C5 witness: a walk caught on a parent cycle that never reaches pid 0 or 1
\* stops at the bound and answers false.
C5_Witness ==
    /\ op = "is_ancestor"
    /\ anc.lookups = 1024
    /\ anc.result = FALSE
    /\ anc.d \in StrictAncestors(anc.d)

IsStrictAncestor(ancestor, p) ==
    IF ancestor >= 1 THEN ancestor \in StrictAncestors(p)
    ELSE is_ancestor(ancestor, p)

\* A session is the focused window's process or is below it.
MatchesWindow(s) ==
    s.pid = res.window_pid \/ IsStrictAncestor(res.window_pid, s.pid)

\* The indices of the candidate sessions of the call.
Candidates ==
    { i \in 1 .. Len(res.sessions) : MatchesWindow(res.sessions[i]) }

\* The k-th index of C in input order.
Nth(C, k) ==
    CHOOSE i \in C : Cardinality({ j \in C : j <= i }) = k

\* C6: no candidate gives NoSession, one candidate gives its id, two or
\* more give Ambiguous with the id of every candidate once, in input order.
C6_OutcomeByCandidateCount ==
    op = "resolve_session" =>
        LET C == Candidates
            n == Cardinality(C) IN
        /\ n = 0 => res.out = [kind |-> "NoSession", id |-> "", ids |-> <<>>]
        /\ n = 1 => res.out = [kind |-> "Ok", ids |-> <<>>,
                               id |-> res.sessions[Nth(C, 1)].session]
        /\ n >= 2 => /\ res.out.kind = "Ambiguous"
                     /\ res.out.ids =
                            [k \in 1 .. n |-> res.sessions[Nth(C, k)].session]
        /\ res.sessions = <<>> => res.out.kind = "NoSession"

\* C6 witness: two candidates, reported as Ambiguous.
C6_Witness ==
    /\ op = "resolve_session"
    /\ Cardinality(Candidates) >= 2
    /\ res.out.kind = "Ambiguous"
    /\ Len(res.out.ids) >= 2

\* The ids resolve_session reports, whatever the outcome.
ReportedIds ==
    IF res.out.kind = "Ok" THEN {res.out.id}
    ELSE { res.out.ids[k] : k \in 1 .. Len(res.out.ids) }

----------------------------------------------------------------------------
(* Claims on the event thread of hotkey/x11.rs *)

\* C2 (as claimed): once the receiver has been dropped the poll loop exits,
\* whether or not a further raw event arrives and whether or not the stop
\* flag is ever set.
C2_ExitsOnceReceiverDropped ==
    (~rxAlive) ~> (pc = "exited")

\* C2 (amended): once the receiver has been dropped, the poll loop exits at
\* its next attempt to forward a raw event: the failed send makes the thread
\* return, with nothing sent, and a raw event pending while the loop drains
\* leads to that exit.
C2_ExitsAtFirstSendAfterDrop ==
    /\ [][(~rxAlive /\ pc = "drain" /\ Len(queued' \o sock') < Len(queued \o sock))
            => (pc' = "exited" /\ exitCause' = "rx_dropped" /\ chan' = chan)]_vars
    /\ ((~rxAlive /\ pc = "drain" /\ Pending # <<>>) ~> (pc = "exited"))

\* C2 witness: the thread returned because its send failed, the stop flag
\* never set.
C2_Witness ==
    pc = "exited" /\ exitCause = "rx_dropped" /\ ~rxAlive /\ ~stop

\* C4: once the stop flag is set the loop completes at most one more
\* poll() before it exits, wherever it was when the flag was set, and with
\* no raw event pending it does exit.
C4_StopExitsWithinOneWait ==
    /\ [](pollsAfterStop <= 1)
    /\ ((stop /\ sock = <<>>) ~> (pc = "exited"))

\* C4 witness: the flag was set during a wait, that wait timed out, and the
\* loop test ended the thread.
C4_Witness ==
    stop /\ pollsAfterStop = 1 /\ pc = "exited" /\ exitCause = "stop" /\ arrived = 0

----------------------------------------------------------------------------
(* Claims on broker/sink.rs *)

\* C3 (as claimed): deliver_clipboard succeeds when the writer succeeds and
\* returns exactly Err("clipboard_failed") when the writer fails, whatever
\* error the writer produced.
C3_ClipboardFailureCode ==
    sink.op = "deliver_clipboard" =>
        /\ sink.writer.ok => sink.out.ok
        /\ ~sink.writer.ok => sink.out = [ok |-> FALSE, err |-> "clipboard_failed"]

----------------------------------------------------------------------------
(* Claims on the key grabs of hotkey/x11.rs *)

\* The binding's modifiers combined with each of the four lock states:
\* none, CapsLock (2), NumLock (16), both (18).
FourCombos(binding) ==
    { Pair(BitOr(binding.modifiers, m), binding.keycode) : m \in {0, 2, 16, 18} }

BindingIndices == 1 .. Len(bindings)

\* C9 (as claimed): for any binding, the pairs grab_key requests are the
\* pairs ungrab_key releases, both being the binding's four combinations.
C9_GrabUngrabSameSet ==
    \A b \in BindingIndices :
        (grabRet[b] # "none" /\ ungrabRet[b]) =>
            /\ grabReq[b] = ungrabReq[b]
            /\ grabReq[b] = FourCombos(bindings[b])

\* C9 (amended): ungrab_key always releases the binding's four
\* combinations; grab_key requests exactly those four when it returns Ok,
\* and a subset of them when a send error makes it return Err part-way.
C9_GrabUngrabSameSetWhenOk ==
    \A b \in BindingIndices :
        /\ ungrabRet[b] => ungrabReq[b] = FourCombos(bindings[b])
        /\ grabRet[b] \in {"Ok(true)", "Ok(false)"} =>
              grabReq[b] = FourCombos(bindings[b])
        /\ grabReq[b] \subseteq FourCombos(bindings[b])

\* C9 witness: a binding grabbed with a rejected combination and then
\* ungrabbed, both over the same four pairs.
C9_Witness ==
    \E b \in BindingIndices :
        /\ grabRet[b] = "Ok(false)" /\ ungrabRet[b]
        /\ grabReq[b] = ungrabReq[b]
        /\ Cardinality(grabReq[b]) = 4

\* C10: a rejected grab combination aborts neither the other combinations
\* of its binding nor the other bindings: grab_key still requests all four
\* and returns Ok, false exactly when a combination was rejected; the
\* registration goes through every binding, and the rejection shows only in
\* bindings_ok. (Only a send error, which makes grab_key return Err, ends
\* a registration.)
C10_RejectionNeverAborts ==
    /\ \A b \in BindingIndices :
          /\ grabRet[b] \in {"Ok(true)", "Ok(false)"} =>
                grabReq[b] = FourCombos(bindings[b])
          /\ grabRet[b] = "Ok(false)" => conflicts[b] # {}
          /\ grabRet[b] = "Ok(true)" => conflicts[b] = {}
          /\ (conflicts[b] # {} /\ grabRet[b] # "none") =>
                grabRet[b] \in {"Ok(false)", "Err"}
    /\ gphase = "failed" => \E b \in BindingIndices : grabRet[b] = "Err"
    /\ gphase = "registered" =>
          /\ \A b \in BindingIndices : grabReq[b] = FourCombos(bindings[b])
          /\ bindings_ok = Cardinality({ b \in BindingIndices : conflicts[b] = {} })

\* C10 witness: the very first combination of the first binding was
\* rejected, and the registration still went through every combination of
\* every binding, counting the other bindings as grabbed.
C10_Witness ==
    /\ gphase = "registered"
    /\ Len(bindings) = 3
    /\ Pair(bindings[1].modifiers, bindings[1].keycode) \in conflicts[1]
    /\ \A b \in BindingIndices : grabReq[b] = FourCombos(bindings[b])
    /\ bindings_ok = 2

----------------------------------------------------------------------------
(* Claims on the delivery of events *)

\* What the consumer of the channel of spawn_event_thread has received.
Received == SubSeq(chan, 1, classified)

\* C11: the consumer of the delivery channel receives the raw events in the
\* order they arrived on the connection: what it has received is a prefix of
\* the arrival sequence (the i-th received is the i-th that arrived), so no
\* event is reordered or delivered twice, and the HotkeyEvents made from
\* them are in that order too.
C11_ReceivedInArrivalOrder ==
    /\ \A i \in 1 .. Len(chan) : chan[i].seq = i /\ chan[i].seq <= arrived
    /\ \A i, j \in 1 .. Len(Received) : i < j => Received[i].seq < Received[j].seq
    /\ \A i, j \in 1 .. Len(events) : i < j => events[i].seq < events[j].seq

\* C11 witness: two raw events arrived, both matching a binding, and the
\* consumer received both before the stop flag was set.
C11_Witness ==
    /\ classified = 2 /\ arrived = 2
    /\ pollsAfterStop = 0
    /\ Len(events) = 2

\* The registered bindings a raw event is one of the grabs of.
BindingsOf(raw) ==
    { b \in BindingIndices : Pair(raw.state, raw.detail) \in FourCombos(bindings[b]) }

\* C12: only raw events that match a registered binding are forwarded to
\* the consumer of HotkeyRegistration::events: every HotkeyEvent sent is
\* that of a binding its raw event matches, each matching raw event received
\* gives one, and a raw event that matches no binding gives none.
C12_OnlyMatchingForwarded ==
    /\ \A i \in 1 .. Len(events) :
          /\ events[i].seq \in 1 .. classified
          /\ \E b \in BindingsOf(chan[events[i].seq]) :
                events[i].hotkey = <<"Capture", "Paste", "Clipboard">>[b]
    /\ Len(events) = Cardinality({ i \in 1 .. classified : BindingsOf(chan[i]) # {} })

\* C12 witness: a raw event that matches no binding was received and
\* discarded, and one that matches was forwarded.
C12_Witness ==
    /\ classified >= 2
    /\ Len(events) = 1
    /\ \E i \in 1 .. classified : BindingsOf(chan[i]) = {}

----------------------------------------------------------------------------
(* Claims on the lock masks, unregister, ungrab_key and grab_key *)

\* The bit of Num_Lock by the keyboard mapping: 1 << k under row k, and the
\* fallback bit, Mod2 (16), when the mapping gives none.
DetectedNumLockBit == IF numLockRow = None THEN 16 ELSE 2 ^ numLockRow

\* C13 (as claimed): the NumLock bit of the lock combinations of a grab is
\* the one detected from the keyboard mapping: grab_key requests the
\* binding's modifiers with none, CapsLock, that bit, and both.
C13_NumLockBitDetected ==
    \A b \in BindingIndices :
        grabRet[b] \in {"Ok(true)", "Ok(false)"} =>
            grabReq[b] =
                { Pair(BitOr(bindings[b].modifiers, m), bindings[b].keycode) :
                    m \in {0, 2, DetectedNumLockBit, BitOr(2, DetectedNumLockBit)} }

\* No ungrab request of any binding failed to reach the server.
AllUngrabsReached ==
    \A b \in BindingIndices :
        ungrabLog[b] \in {<<>>, <<"sent", "sent", "sent", "sent", "flushed">>}

UngrabDone(b) == ungrabLog[b] # <<>> /\ ~(call = "ungrab_key" /\ bi = b)

\* C17: ungrab_key never escalates a failure: whichever of its requests
\* fail, and whether or not its flush fails, it goes through all four lock
\* combinations of the binding, flushes, and returns.
C17_UngrabNeverEscalates ==
    \A b \in BindingIndices :
        /\ UngrabDone(b) =>
              /\ ungrabRet[b]
              /\ Len(ungrabLog[b]) = 5
              /\ \A i \in 1 .. 4 : ungrabLog[b][i] \in {"sent", "send_error"}
              /\ ungrabLog[b][5] \in {"flushed", "flush_error"}
              /\ ungrabReq[b] = FourCombos(bindings[b])
        /\ (call = "ungrab_key" /\ bi = b) =>
              /\ Len(ungrabLog[b]) = li - 1
              /\ li <= 5

\* C17 witness: a call whose first request failed and whose flush failed,
\* returned, with all four combinations requested.
C17_Witness ==
    \E b \in BindingIndices :
        /\ ungrabRet[b]
        /\ ungrabLog[b][1] = "send_error"
        /\ ungrabLog[b][5] = "flush_error"
        /\ Cardinality(ungrabReq[b]) = 4

\* How many iterations of the grab_key call on b ended as outcome.
GrabCount(b, outcome) ==
    Cardinality({ i \in 1 .. Len(grabLog[b]) : grabLog[b][i] = outcome })

\* C20: grab_key returns Ok(true) exactly when all four combinations were
\* accepted, Ok(false) exactly when all four requests were sent and the
\* server refused at least one, and Err exactly when a request failed to be
\* sent.
C20_GrabKeyResult ==
    \A b \in BindingIndices :
        grabRet[b] # "none" =>
            /\ grabRet[b] = "Ok(true)" <=> GrabCount(b, "accepted") = 4
            /\ grabRet[b] = "Ok(false)" <=>
                  /\ GrabCount(b, "send_error") = 0
                  /\ GrabCount(b, "rejected") >= 1
                  /\ Len(grabLog[b]) = 4
            /\ grabRet[b] = "Err" <=> GrabCount(b, "send_error") >= 1

\* C20 witness: of three calls one returned Ok(true), one Ok(false) after a
\* refusal, and one Err after a send failure.
C20_Witness ==
    /\ Len(bindings) = 3
    /\ grabRet[1] = "Ok(true)" /\ GrabCount(1, "accepted") = 4
    /\ grabRet[2] = "Ok(false)" /\ GrabCount(2, "rejected") = 1
    /\ grabRet[3] = "Err" /\ GrabCount(3, "send_error") = 1

----------------------------------------------------------------------------
(* Claims on deliver_file *)

\* C15: deliver_file returns exactly Err("file_write_failed") for every
\* I/O failure, whatever it was, and Ok when the I/O succeeds; a write to a
\* path under a directory that does not exist returns that code and leaves
\* no file at the path.
C15_FileFailureCode ==
    fileCall.n > 0 =>
        /\ fileCall.io.kind # "ok" =>
              fileCall.out = [ok |-> FALSE, err |-> "file_write_failed"]
        /\ fileCall.io.kind = "ok" => fileCall.out.ok
        /\ fileCall.path = "/nonexistent/dir/file.txt" =>
              /\ fileCall.out = [ok |-> FALSE, err |-> "file_write_failed"]
              /\ fs_read(fs, fileCall.path) = NoFile

\* C15 witness: a second call, on the path under the missing directory,
\* failed with the code, the file of the first call being on disk.
C15_Witness ==
    /\ fileCall.n = 2
    /\ fileCall.path = "/nonexistent/dir/file.txt"
    /\ fileCall.io.kind = "NotFound"
    /\ ~fileCall.out.ok
    /\ fs["tmp/output.txt"] # NoFile

\* C16: after deliver_file succeeds with bytes B on a path, reading the
\* path yields exactly B, whatever the file held before.
C16_FileRoundTrip ==
    (fileCall.n > 0 /\ fileCall.out.ok) =>
        fs_read(fs, fileCall.path) = fileCall.content

\* C16 witness: the second successful write is shorter than what the file
\* held, and the file holds exactly it.
C16_Witness ==
    /\ fileCall.n = 2 /\ fileCall.out.ok
    /\ fileCall.before # NoFile
    /\ Len(fileCall.before) > Len(fileCall.content)
    /\ fs[fileCall.path] = fileCall.content

----------------------------------------------------------------------------
(* Claims on the walk of is_ancestor *)

\* The k-th parent of d by the process table: None from the first pid that
\* has no entry.
RECURSIVE Fetched(_, _)
Fetched(d, k) ==
    IF k = 0 THEN d
    ELSE LET p == Fetched(d, k - 1) IN
         IF p \in DOMAIN procTable THEN procTable[p] ELSE None

\* The j-th parent of the call's descendant is one the walk goes on from:
\* there, not the ancestor, above pid 1, and not the pid it was fetched for.
GoesOn(j) ==
    LET p == Fetched(anc.d, j) IN
    /\ p # None /\ p # anc.a /\ p > 1 /\ p # Fetched(anc.d, j - 1)

Smaller(m, n) == IF m < n THEN m ELSE n

\* Every chain of parents ends at pid 1, whose parent is 0: no cycle, no
\* entry its own parent, no parent without an entry.
WellFormed ==
    \A p \in DOMAIN procTable :
        procTable[p] # None => (p = 1 \/ 1 \in StrictAncestors(p))

\* C18: is_ancestor(a, d) follows the parents of d: every parent before
\* the last one fetched is one the walk goes on from (a chain of more than
\* MaxPid + 1 such parents is on a cycle, and all of its parents are); it
\* is true exactly when the last one fetched is a, and false when that one
\* is absent, is <= 1, is the pid it was fetched for, or is the 1024th. On
\* a well-formed table and for a >= 1 it is true exactly when a is reached
\* from d by one or more parent steps.
C18_FollowsParentChain ==
    op = "is_ancestor" =>
        LET k == anc.lookups
            last == Fetched(anc.d, Smaller(k, MaxPid + 2)) IN
        /\ \A j \in 1 .. Smaller(k - 1, MaxPid + 1) : GoesOn(j)
        /\ anc.result => (k <= MaxPid + 1 /\ last = anc.a)
        /\ ~anc.result =>
              \/ k = 1024
              \/ /\ k <= MaxPid + 1
                 /\ last # anc.a
                 /\ last = None \/ last <= 1 \/ last = Fetched(anc.d, k - 1)
        /\ (WellFormed /\ anc.a >= 1) =>
              (anc.result <=> anc.a \in StrictAncestors(anc.d))

\* C18 witness: on a well-formed table the walk fetched two parents and
\* found the ancestor at the second.
C18_Witness ==
    /\ op = "is_ancestor" /\ WellFormed
    /\ anc.a >= 1 /\ anc.lookups = 2 /\ anc.result
    /\ anc.a \in StrictAncestors(anc.d)
    /\ \A p \in DOMAIN procTable : procTable[p] # None

----------------------------------------------------------------------------
(* Claims on get_active_window_pid *)

\* The property of a reply is not one 32-bit value.
Unexpected(reply) == reply.format # 32 \/ Len(reply.value) # 4

\* The 32-bit value of a reply that is one.
ValueOf(reply) ==
    reply.value[1] + reply.value[2] * 256 + reply.value[3] * (256 * 256)
        + reply.value[4] * (256 * 256 * 256)

\* The call went on to its second request.
AskedWindowPid ==
    awp.r1.err = "none" /\ ~Unexpected(awp.r1) /\ ValueOf(awp.r1) # 0

\* C19: the query returns Ok(None), not an error, whenever the
\* active-window property has an unexpected format or length, names the
\* null window, or the window's pid property has an unexpected format or
\* length; it returns Err exactly when a request or a reply fails; in the
\* case left it returns the pid of the property.
C19_AbsentIsNotAnError ==
    awp.pc = "done" =>
        /\ awp.out.kind = "Err" <=>
              \/ awp.r1.err # "none"
              \/ AskedWindowPid /\ awp.r2.err # "none"
        /\ awp.out.kind = "None" <=>
              /\ awp.r1.err = "none"
              /\ \/ Unexpected(awp.r1)
                 \/ ValueOf(awp.r1) = 0
                 \/ awp.r2.err = "none" /\ Unexpected(awp.r2)
        /\ awp.out.kind = "Some" => awp.out.pid = ValueOf(awp.r2)
        /\ awp.out.kind \in {"Err", "None", "Some"}

\* C19 witness: a window is active and has no pid property (format 0, no
\* bytes): the query answers Ok(None).
C19_Witness ==
    /\ awp.pc = "done"
    /\ awp.r1 = [err |-> "none", format |-> 32, value |-> <<7, 0, 0, 0>>]
    /\ awp.r2 = [err |-> "none", format |-> 0, value |-> <<>>]
    /\ awp.out.kind = "None"

----------------------------------------------------------------------------
(* Claims on the errors of the connection and on the shared connection *)

\* C21: an unrecoverable error of the connection ends the poll loop: the
\* thread leaves its wait for good only on an error of poll, and its drain
\* only on an error of poll_for_event or a failed send; once it has
\* returned it sends nothing more. An interrupted wait is no such error: a
\* wait that ends neither readable nor in an error goes back to the test of
\* the stop flag, the thread running and nothing sent.
C21_ConnectionErrorEndsLoop ==
    /\ [](exitCause \in {"poll_error", "conn_error"} => pc = "exited")
    /\ [][(pc = "poll" /\ pc' = "exited") => exitCause' = "poll_error"]_vars
    /\ [][(pc = "drain" /\ pc' = "exited") =>
              exitCause' \in {"conn_error", "rx_dropped"}]_vars
    /\ [][pc = "exited" =>
              (pc' = "exited" /\ chan' = chan /\ exitCause' = exitCause)]_vars
    /\ [][(pc = "poll" /\ pc' \notin {"poll", "drain", "exited"}) =>
              (pc' = "check" /\ exitCause' = "none" /\ chan' = chan)]_vars

\* C21 witness: poll_for_event failed with an event still pending, the
\* receiver alive and the stop flag unset: the thread has returned and the
\* event stays unsent.
C21_Witness ==
    /\ pc = "exited" /\ exitCause = "conn_error"
    /\ Pending # <<>>
    /\ rxAlive /\ ~stop
    /\ Len(chan) < arrived

\* C22 (as claimed): while the receiver is alive and the stop flag unset,
\* every raw event the server delivers is eventually forwarded on the
\* channel (the connection not failing), also when calls of the async side
\* read events off the socket into the connection's queue.
C22_EveryEventForwarded ==
    \A n \in 1 .. MaxEvents :
        (arrived >= n) ~>
            \/ Len(chan) >= n
            \/ ~rxAlive
            \/ stop
            \/ exitCause \in {"poll_error", "conn_error"}

\* C23: no grab leak after a partial registration: whatever grab_key did
\* with a binding (all four accepted, some refused, left part-way on a send
\* error, or never called), once an ungrab_key of the binding has had its
\* four requests and its flush reach the server, none of the binding's four
\* combinations is grabbed; and grab_key releases nothing: while it runs
\* the grabs the server holds only grow.
C23_NoGrabLeak ==
    /\ [](\A b \in BindingIndices :
            ungrabLog[b] = <<"sent", "sent", "sent", "sent", "flushed">> =>
                grabbed \cap FourCombos(bindings[b]) = {})
    /\ [][call = "grab_key" => grabbed \subseteq grabbed']_vars

\* C23 witness: grab_key acquired the first combination of a binding and
\* was then ended by a send error; ungrab_key followed, its requests
\* reached the server, and nothing of the binding is grabbed.
C23_Witness ==
    \E b \in BindingIndices :
        /\ grabLog[b] = <<"accepted", "send_error">>
        /\ grabRet[b] = "Err"
        /\ ungrabLog[b] = <<"sent", "sent", "sent", "sent", "flushed">>
        /\ grabbed \cap FourCombos(bindings[b]) = {}

====
